---- MODULE Spec2Model ----
(***************************************************************************)
(* A model of the /ytdl retrieval-and-delivery pipeline of src/main.py:    *)
(* ytdl_cmd (one run of the handler, split at its awaits), the             *)
(* ProgressNotifier it drives, and the URL grammar YOUTUBE_URL_RE.         *)
(*                                                                         *)
(* Strings are sequences of one-character strings, so that the regular     *)
(* expression is matched character by character.  Time is counted in       *)
(* tenths of a second.  The yt_dlp package is taken to be installed (the   *)
(* ImportError branch of lines 250-254 is a deployment fault, not a run    *)
(* of the pipeline), and tempfile.TemporaryDirectory() and its cleanup are  *)
(* taken to succeed.                                                       *)
(***************************************************************************)
EXTENDS Integers, Sequences, FiniteSets, TLC

VARIABLES
    pc,          \* where the run of ytdl_cmd stands
    url,         \* args[0].strip() (line 261); <<>> before it is read
    now,         \* the wall clock, time.time(), in tenths of a second
    last_edit,   \* ProgressNotifier.last_edit
    last_text,   \* ProgressNotifier.last_text ("None" for None)
    last_call,   \* history: clock value of the latest edit_message_text call (0: none yet)
    calls,       \* history: the external calls made so far, in order
    tmpdir,      \* the TemporaryDirectory: "none", "exists", "removed"
    duration,    \* info.get('duration', 0) once resolved
    listing,     \* os.listdir(tmpdir.name) after the download
    filename,    \* the file picked by the scan: <<file>>, or <<>> for None
    file_size,   \* os.path.getsize(filename); -1 before it is read
    fpos,        \* position of the open stream f; -1 while f is not open
    outcome,     \* how the run ended; "running" before
    delivered,   \* history: the kinds of message the endpoint has accepted in this run
    bot_application, \* the global of line 39: FALSE for None
    secret,      \* WEBHOOK_SECRET, line 28
    pending,     \* the process_update coroutines handed to the event loop, not yet run
    last_post,   \* history: the latest POST to /webhook and its answer
    started,     \* history: how many runs of ytdl_cmd the dispatcher has started
    failed,      \* history: how many of the runs that ended did so on an exception
    run,         \* concurrent runs: the locals of each run of ytdl_cmd
    disk         \* concurrent runs: the directories under the temp root and their files

\* the application around the handler: webhook ingestion and dispatch
appvars == <<bot_application, secret, pending, last_post, started, failed>>

\* several runs of the handler side by side
concvars == <<run, disk>>

vars == <<pc, url, now, last_edit, last_text, last_call, calls, tmpdir,
          duration, listing, filename, file_size, fpos, outcome, delivered,
          appvars, concvars>>

(***************************************************************************)
(* YOUTUBE_URL_RE, lines 31-36, matched as re.match does: from position 0, *)
(* case-insensitively, to the end of the string.  Each operator maps a set *)
(* of positions reached so far to the set of positions reached after it.   *)
(***************************************************************************)
LowerSeq == <<"a","b","c","d","e","f","g","h","i","j","k","l","m",
              "n","o","p","q","r","s","t","u","v","w","x","y","z">>

UpperSeq == <<"A","B","C","D","E","F","G","H","I","J","K","L","M",
              "N","O","P","Q","R","S","T","U","V","W","X","Y","Z">>

Digits == {"0","1","2","3","4","5","6","7","8","9"}

SpaceChars == {" ", "\t", "\n", "\r"}

Range(f) == { f[i] : i \in DOMAIN f }

UpperSet == Range(UpperSeq)

\* str.lower on the upper-case letters
LowerOf == [c \in UpperSet |-> LowerSeq[CHOOSE i \in DOMAIN UpperSeq : UpperSeq[i] = c]]

\* re.IGNORECASE: a character is compared by its lower-case form.
Lower(c) == IF c \in UpperSet THEN LowerOf[c] ELSE c

\* \w and -
IdChars == Range(LowerSeq) \cup UpperSet \cup Digits \cup {"_", "-"}

\* [\w-]
IdChar(c) == c \in IdChars

\* [&?]
TailStart(c) == c \in {"&", "?"}

\* [^\s]
NonSpace(c) == c \notin SpaceChars

\* A literal of the pattern, from each position of P.
Lit(s, P, lit) ==
    { p + Len(lit) : p \in { q \in P : /\ q + Len(lit) <= Len(s)
                                       /\ \A i \in 1..Len(lit) : Lower(s[q + i]) = lit[i] } }

\* Membership of a character in one of the pattern's three classes.
InClass(c, class) ==
    CASE class = "[\\w-]" -> IdChar(c)
      [] class = "[&?]" -> TailStart(c)
      [] class = "[^\\s]" -> NonSpace(c)

\* One character of a class.
One(s, P, class) == { p + 1 : p \in { q \in P : q + 1 <= Len(s) /\ InClass(s[q + 1], class) } }

\* class+ : one or more characters of a class.
Plus(s, P, class) ==
    { q \in 0..Len(s) : \E p \in P : p < q /\ \A i \in (p + 1)..q : InClass(s[i], class) }

L_http == <<"h","t","t","p">>
L_s == <<"s">>
L_colon_slashes == <<":","/","/">>
L_www == <<"w","w","w",".">>
L_youtube_com == <<"y","o","u","t","u","b","e",".","c","o","m","/">>
L_watch == <<"w","a","t","c","h","?","v","=">>
L_shorts == <<"s","h","o","r","t","s","/">>
L_live == <<"l","i","v","e","/">>
L_youtu_be == <<"y","o","u","t","u",".","b","e","/">>

\* (https?://)?
AfterScheme(s, P) ==
    LET h == Lit(s, P, L_http)
    IN  P \cup Lit(s, h \cup Lit(s, h, L_s), L_colon_slashes)

\* (www\.)?
AfterWww(s, P) == P \cup Lit(s, P, L_www)

\* (youtube\.com/(watch\?v=[\w-]+|shorts/[\w-]+|live/[\w-]+)|youtu\.be/[\w-]+)
AfterId(s, P) ==
    LET yt == Lit(s, P, L_youtube_com)
    IN  Plus(s, Lit(s, yt, L_watch) \cup Lit(s, yt, L_shorts) \cup Lit(s, yt, L_live)
                \cup Lit(s, P, L_youtu_be), "[\\w-]")

\* ([&?][^\s]+)?
AfterTail(s, P) == P \cup Plus(s, One(s, P, "[&?]"), "[^\\s]")

\* The whole pattern but its final $, from the positions P: the positions
\* at which a match of it ends.
PatternEnds(s, P) == AfterTail(s, AfterId(s, AfterWww(s, AfterScheme(s, P))))

\* $ : the end of the string, or just before a final newline.
AtEnd(s, p) == p = Len(s) \/ (p = Len(s) - 1 /\ s[Len(s)] = "\n")

\* The pattern of YOUTUBE_URL_RE, lines 31-36: ^ is position 0.
YOUTUBE_URL_RE(s) == \E p \in PatternEnds(s, {0}) : AtEnd(s, p)

\* The pattern with its final $ left out: a prefix of the url matches.
UrlPrefixMatches(u) == PatternEnds(u, {0}) # {}

\* YOUTUBE_URL_RE.match(url), line 262
UrlMatches(u) == YOUTUBE_URL_RE(u)

\* str.strip(): leading and trailing whitespace removed.
RECURSIVE LStrip(_)
LStrip(s) == IF s # <<>> /\ Head(s) \in SpaceChars THEN LStrip(Tail(s)) ELSE s

RECURSIVE RStrip(_)
RStrip(s) ==
    IF s # <<>> /\ s[Len(s)] \in SpaceChars THEN RStrip(SubSeq(s, 1, Len(s) - 1)) ELSE s

Strip(s) == RStrip(LStrip(s))

(***************************************************************************)
(* The first arguments a /ytdl message is tried with.  context.args is the *)
(* message text split at whitespace, so an argument holds none.            *)
(***************************************************************************)
WatchUrl == <<"y","o","u","t","u","b","e",".","c","o","m","/","w","a","t","c","h","?","v","=","a">>

ShortUrl == <<"Y","o","u","T","u",".","B","e","/","a">>

NoIdUrl == <<"y","o","u","t","u","b","e",".","c","o","m","/","w","a","t","c","h","?","v","=">>

OtherSiteUrl == <<"v","i","m","e","o",".","c","o","m","/","a">>

Bodies == {
    WatchUrl,
    <<"y","o","u","t","u",".","b","e","/","w","a","t","c","h","?","v","=","a">>,
    <<"y","o","u","t","u","b","e",".","c","o","m","/","a">>,
    <<"y","o","u","t","u",".","b","e","/","a","/","b">>,
    <<"y","o","u","t","u","b","e",".","c","o","m","/","s","h","o","r","t","s","/">>,
    NoIdUrl,
    OtherSiteUrl,
    <<>> }

Prefixed == {
    <<"H","T","T","P",":","/","/","w","w","w",".","y","o","u","t","u","b","e",".","c","o","m","/",
      "s","h","o","r","t","s","/","a","-","_","9">>,
    <<"h","t","t","p","s",":","/","/","y","o","u","t","u","b","e",".","c","o","m","/","l","i","v","e","/","a">>,
    <<"f","t","p",":","/","/">> \o WatchUrl,
    <<"w","w","w",".","h","t","t","p",":","/","/">> \o WatchUrl,
    <<"h","t","t","p","s",":","/","/">> \o OtherSiteUrl }

Tails == { <<"?","x">>, <<"&">>, <<"#","x">>, <<"/">> }

FirstArgs == Bodies \cup Prefixed \cup { b \o t : b \in {ShortUrl, NoIdUrl}, t \in Tails }

(***************************************************************************)
(* Program constants and the bounds of the model.                          *)
(***************************************************************************)
\* min_interval: float = 0.8 (line 189), in tenths of a second
MinInterval == 8

\* if duration > 1800 (line 288), in seconds
MaxDuration == 1800

\* max_size = 50 * 1024 * 1024 (line 321), in bytes
max_size == 50 * 1024 * 1024

\* The clock when the handler starts: time.time() is far above min_interval,
\* so the first update of a notifier (last_edit = 0) is never throttled.
StartTime == MinInterval

\* How long a run is followed, in tenths of a second.
MaxElapsed == 16

\* Time that passes between two steps of the run, besides none at all:
\* just under the interval, and exactly the interval.
Delays == { MinInterval - 1, MinInterval }

\* info.get('duration', 0): a number of seconds (0 when the key is absent),
\* or None when the key is present with no value.
Seconds(n) == [kind |-> "int", secs |-> n]

DurationNone == [kind |-> "None", secs |-> 0]

DurationUnset == [kind |-> "unset", secs |-> 0]

\* What extract_info may report.
Durations ==
    { Seconds(n) : n \in { 0, MaxDuration, MaxDuration + 1 } }
        \cup { DurationNone }

\* What os.path.getsize may report for the downloaded file.
Sizes == { 1, max_size, max_size + 1 }

\* Files the download may leave in the workspace.
Files == { [stem |-> "a", ext |-> ".mkv"],
           [stem |-> "b", ext |-> ".mp4"],
           [stem |-> "b", ext |-> ".part"] }

\* How many entries os.listdir is followed for.
MaxFiles == 2

\* os.listdir: the entries of the directory, each once, in arbitrary order.
Listings ==
    { l \in UNION { [1..n -> Files] : n \in 0..MaxFiles } :
        \A i, j \in DOMAIN l : i # j => l[i] # l[j] }

(***************************************************************************)
(* The history of external calls.                                          *)
(***************************************************************************)
\* One external call: the operation, its argument (a status text, the url,
\* or the kind of payload), whether it returned (ok) or raised, and for an
\* upload the stream position it read from, the size of the file and the
\* position it left the stream at.
Call(op, arg, ok) ==
    [op |-> op, arg |-> arg, ok |-> ok, from |-> 0, size |-> 0, left |-> 0]

\* reply_video / reply_document with InputFile(f, ...), lines 329-335, 340-345
Upload(op, ok, from, size, left) ==
    [op |-> op, arg |-> "InputFile", ok |-> ok, from |-> from, size |-> size, left |-> left]

CallsOf(op) == { i \in DOMAIN calls : calls[i].op = op }

Uploads == CallsOf("reply_video") \cup CallsOf("reply_document")

(***************************************************************************)
(* ProgressNotifier, lines 180-205.                                        *)
(***************************************************************************)
\* __init__, lines 182-187
NotifierInit ==
    /\ last_edit' = 0
    /\ last_text' = "None"

\* The two early returns of update, lines 192-195.
Throttled(text) ==
    \/ (last_text = text /\ (now - last_edit) < MinInterval)
    \/ (now - last_edit) < MinInterval

\* update with last_edit assigned after the suppress block, edit sent or not.
NotifierUpdateStampsAlways(text, ok) ==
    IF Throttled(text)
    THEN UNCHANGED <<last_edit, last_text, last_call, calls>>
    ELSE /\ calls' = Append(calls, Call("edit_message_text", text, ok))
         /\ last_call' = now
         /\ last_edit' = now
         /\ last_text' = IF ok THEN text ELSE last_text

\* update(text), lines 189-205: ok tells whether edit_message_text returned
\* or raised (the exception is suppressed, and with it the two assignments).
NotifierUpdate(text, ok) ==
    IF Throttled(text)
    THEN UNCHANGED <<last_edit, last_text, last_call, calls>>
    ELSE /\ calls' = Append(calls, Call("edit_message_text", text, ok))
         /\ last_call' = now
         /\ last_edit' = IF ok THEN now ELSE last_edit
         /\ last_text' = IF ok THEN text ELSE last_text


(***************************************************************************)
(* ytdl_cmd, lines 248-357, one action per stretch between two awaits.     *)
(***************************************************************************)
\* No POST yet, line 39: bot_application = None
NoPost == [header |-> "None", kind |-> "none", status |-> 0, scheduled |-> FALSE]

\* One run of the handler looked at on its own: nothing around it.
AppOff ==
    /\ bot_application = FALSE
    /\ secret = ""
    /\ pending = <<>>
    /\ last_post = NoPost
    /\ started = 0
    /\ failed = 0

\* No other run beside it.
ConcOff ==
    /\ run = <<>>
    /\ disk = <<>>

Init ==
    /\ pc = "start"
    /\ url = <<>>
    /\ now = StartTime
    /\ last_edit = 0
    /\ last_text = "None"
    /\ last_call = 0
    /\ calls = <<>>
    /\ tmpdir = "none"
    /\ duration = DurationUnset
    /\ listing = <<>>
    /\ filename = <<>>
    /\ file_size = -1
    /\ fpos = -1
    /\ outcome = "running"
    /\ delivered = {}
    /\ AppOff
    /\ ConcOff

\* Time passes while the run is suspended or computing.
Elapse ==
    /\ pc \notin {"start", "done"}
    /\ \E d \in Delays :
        /\ now + d <= StartTime + MaxElapsed
        /\ now' = now + d
    /\ UNCHANGED <<pc, url, last_edit, last_text, last_call, calls, tmpdir,
                   duration, listing, filename, file_size, fpos, outcome>>
    /\ UNCHANGED <<delivered, appvars, concvars>>

\* A return or an exception that leaves the function with nothing created.
Leave(how) ==
    /\ pc' = "done"
    /\ outcome' = how
    /\ UNCHANGED <<now, last_edit, last_text, last_call, tmpdir,
                   duration, listing, filename, file_size, fpos>>
    /\ UNCHANGED <<delivered, appvars, concvars>>

\* lines 256-259: no argument
NoArgs ==
    /\ pc = "start"
    /\ \E ok \in BOOLEAN : calls' = Append(calls, Call("reply_text", "usage", ok))
    /\ url' = url
    /\ Leave("usage")

\* lines 261-264: the first argument is not a YouTube link
RejectUrl ==
    /\ pc = "start"
    /\ \E arg \in FirstArgs :
        /\ url' = Strip(arg)
        /\ ~UrlMatches(url')
    /\ \E ok \in BOOLEAN : calls' = Append(calls, Call("reply_text", "invalid", ok))
    /\ Leave("invalid")

\* lines 261-267: the link is accepted, and the status message cannot be sent:
\* reply_text raises outside the try block
StatusMessageFails ==
    /\ pc = "start"
    /\ \E arg \in FirstArgs :
        /\ url' = Strip(arg)
        /\ UrlMatches(url')
    /\ calls' = Append(calls, Call("reply_text", "preparing", FALSE))
    /\ Leave("raised")

\* lines 261-270: the link is accepted, the status message sent, the notifier
\* and the workspace created
AcceptUrl ==
    /\ pc = "start"
    /\ \E arg \in FirstArgs :
        /\ url' = Strip(arg)
        /\ UrlMatches(url')
    /\ calls' = Append(calls, Call("reply_text", "preparing", TRUE))
    /\ NotifierInit
    /\ tmpdir' = "exists"
    /\ pc' = "try"
    /\ UNCHANGED <<now, last_call, duration, listing, filename, file_size, fpos, outcome>>
    /\ UNCHANGED <<delivered, appvars, concvars>>

\* The first update with no suppress around the edit: a failed edit raises.
UpdateFetchingRaises ==
    /\ pc = "try"
    /\ \E ok \in BOOLEAN :
        /\ NotifierUpdate("fetching", ok)
        /\ pc' = IF ok \/ Throttled("fetching") THEN "resolve" ELSE "except"
    /\ UNCHANGED <<url, now, tmpdir, duration, listing, filename, file_size, fpos, outcome>>
    /\ UNCHANGED <<delivered, appvars, concvars>>

\* line 273
UpdateFetching ==
    /\ pc = "try"
    /\ \E ok \in BOOLEAN : NotifierUpdate("fetching", ok)
    /\ pc' = "resolve"
    /\ UNCHANGED <<url, now, tmpdir, duration, listing, filename, file_size, fpos, outcome>>
    /\ UNCHANGED <<delivered, appvars, concvars>>

\* lines 283-287: extract_info(url, download=False) returns
Resolve ==
    /\ pc = "resolve"
    /\ calls' = Append(calls, Call("extract_info", "url", TRUE))
    /\ \E d \in Durations : duration' = d
    /\ pc' = "gate"
    /\ UNCHANGED <<url, now, last_edit, last_text, last_call, tmpdir,
                   listing, filename, file_size, fpos, outcome>>
    /\ UNCHANGED <<delivered, appvars, concvars>>

\* extract_info raises, the exception is dropped and the run goes on.
ResolveFailsGoesOn ==
    /\ pc = "resolve"
    /\ calls' = Append(calls, Call("extract_info", "url", FALSE))
    /\ pc' = "download"
    /\ UNCHANGED <<url, now, last_edit, last_text, last_call, tmpdir,
                   duration, listing, filename, file_size, fpos, outcome>>
    /\ UNCHANGED <<delivered, appvars, concvars>>

\* line 283: extract_info raises
ResolveFails ==
    /\ pc = "resolve"
    /\ calls' = Append(calls, Call("extract_info", "url", FALSE))
    /\ pc' = "except"
    /\ UNCHANGED <<url, now, last_edit, last_text, last_call, tmpdir,
                   duration, listing, filename, file_size, fpos, outcome>>
    /\ UNCHANGED <<delivered, appvars, concvars>>

\* line 288 with duration None: None > 1800 raises TypeError
GateRaises ==
    /\ pc = "gate"
    /\ duration.kind = "None"
    /\ pc' = "except"
    /\ UNCHANGED <<url, now, last_edit, last_text, last_call, calls, tmpdir,
                   duration, listing, filename, file_size, fpos, outcome>>
    /\ UNCHANGED <<delivered, appvars, concvars>>

\* The comparison with the ceiling itself counted as too long.
TooLongInclusive(d) == d.secs >= MaxDuration

\* duration > 1800, line 288
TooLong(d) == d.secs > MaxDuration

\* lines 288-290: too long, the update and the return
RejectDuration ==
    /\ pc = "gate"
    /\ duration.kind = "int"
    /\ TooLong(duration)
    /\ \E ok \in BOOLEAN : NotifierUpdate("too_long", ok)
    /\ outcome' = "too_long"
    /\ pc' = "finally"
    /\ UNCHANGED <<url, now, tmpdir, duration, listing, filename, file_size, fpos>>
    /\ UNCHANGED <<delivered, appvars, concvars>>

\* lines 288, 292: allowed, the update before the download
PassDuration ==
    /\ pc = "gate"
    /\ duration.kind = "int"
    /\ ~TooLong(duration)
    /\ \E ok \in BOOLEAN : NotifierUpdate("found", ok)
    /\ pc' = "download"
    /\ UNCHANGED <<url, now, tmpdir, duration, listing, filename, file_size, fpos, outcome>>
    /\ UNCHANGED <<delivered, appvars, concvars>>

\* line 295: ydl.download([url]) returns, leaving files in the workspace
Download ==
    /\ pc = "download"
    /\ calls' = Append(calls, Call("download", "url", TRUE))
    /\ \E l \in Listings : listing' = l
    /\ pc' = "scan"
    /\ UNCHANGED <<url, now, last_edit, last_text, last_call, tmpdir,
                   duration, filename, file_size, fpos, outcome>>
    /\ UNCHANGED <<delivered, appvars, concvars>>

\* The download raises with no except clause around it: finally, then out.
DownloadFailsUncaught ==
    /\ pc = "download"
    /\ calls' = Append(calls, Call("download", "url", FALSE))
    /\ outcome' = "raised"
    /\ pc' = "finally"
    /\ UNCHANGED <<url, now, last_edit, last_text, last_call, tmpdir,
                   duration, listing, filename, file_size, fpos>>
    /\ UNCHANGED <<delivered, appvars, concvars>>

\* line 295: ydl.download raises
DownloadFails ==
    /\ pc = "download"
    /\ calls' = Append(calls, Call("download", "url", FALSE))
    /\ pc' = "except"
    /\ UNCHANGED <<url, now, last_edit, last_text, last_call, tmpdir,
                   duration, listing, filename, file_size, fpos, outcome>>
    /\ UNCHANGED <<delivered, appvars, concvars>>

\* lines 298-320: os.listdir, os.path.exists or os.path.getsize raises
ScanRaises ==
    /\ pc = "scan"
    /\ calls' = Append(calls, Call("listdir", "tmpdir", FALSE))
    /\ pc' = "except"
    /\ UNCHANGED <<url, now, last_edit, last_text, last_call, tmpdir,
                   duration, listing, filename, file_size, fpos, outcome>>
    /\ UNCHANGED <<delivered, appvars, concvars>>

\* file.endswith(('.mp4', '.mkv', '.webm')), line 300
IsVideo(file) == file.ext \in {".mp4", ".mkv", ".webm"}

\* lines 298-302: the first entry of the listing with a video extension
FirstVideo(l) ==
    IF \E i \in DOMAIN l : IsVideo(l[i])
    THEN <<l[CHOOSE i \in DOMAIN l : IsVideo(l[i]) /\ \A j \in 1..(i - 1) : ~IsVideo(l[j])]>>
    ELSE <<>>

\* lines 298-306: no video file in the workspace
ScanFindsNone ==
    /\ pc = "scan"
    /\ FirstVideo(listing) = <<>>
    /\ filename' = <<>>
    /\ \E ok \in BOOLEAN : NotifierUpdate("no_file", ok)
    /\ outcome' = "no_file"
    /\ pc' = "finally"
    /\ UNCHANGED <<url, now, tmpdir, duration, listing, file_size, fpos>>
    /\ UNCHANGED <<delivered, appvars, concvars>>

\* lines 298-308: a file is picked, the update before the upload
ScanFinds ==
    /\ pc = "scan"
    /\ FirstVideo(listing) # <<>>
    /\ filename' = FirstVideo(listing)
    /\ \E ok \in BOOLEAN : NotifierUpdate("uploading", ok)
    /\ pc' = "size"
    /\ UNCHANGED <<url, now, tmpdir, duration, listing, file_size, fpos, outcome>>
    /\ UNCHANGED <<delivered, appvars, concvars>>


\* The comparison with the size taken in kilobytes and the ceiling in bytes.
TooLargeWrongUnit(size) == size \div 1024 > max_size

\* file_size > max_size, line 323
TooLarge(size) == size > max_size

\* lines 320-325: the file is over the ceiling, the update and the return
RejectSize ==
    /\ pc = "size"
    /\ \E sz \in Sizes :
        /\ file_size' = sz
        /\ TooLarge(sz)
    /\ \E ok \in BOOLEAN : NotifierUpdate("too_large", ok)
    /\ outcome' = "too_large"
    /\ pc' = "finally"
    /\ UNCHANGED <<url, now, tmpdir, duration, listing, filename, fpos>>
    /\ UNCHANGED <<delivered, appvars, concvars>>

\* lines 320-327: the file is within the ceiling and is opened
PassSize ==
    /\ pc = "size"
    /\ \E sz \in Sizes :
        /\ file_size' = sz
        /\ ~TooLarge(sz)
    /\ fpos' = 0
    /\ pc' = "video"
    /\ UNCHANGED <<url, now, last_edit, last_text, last_call, calls, tmpdir,
                   duration, listing, filename, outcome>>
    /\ UNCHANGED <<delivered, appvars, concvars>>

\* Where a failed upload may leave the stream it was reading.
StreamPositions(size) == { 0, size \div 2, size }

\* reply_video returns and the document attempt is made all the same.
SendVideoFallsThrough ==
    /\ pc = "video"
    /\ calls' = Append(calls, Upload("reply_video", TRUE, fpos, file_size, file_size))
    /\ fpos' = file_size
    /\ delivered' = delivered \cup {"video"}
    /\ outcome' = "upload_video"
    /\ pc' = "document"
    /\ UNCHANGED <<url, now, last_edit, last_text, last_call, tmpdir,
                   duration, listing, filename, file_size>>
    /\ UNCHANGED <<appvars, concvars>>

\* lines 329-336 and the end of the with block: reply_video returns
SendVideo ==
    /\ pc = "video"
    /\ calls' = Append(calls, Upload("reply_video", TRUE, fpos, file_size, file_size))
    /\ fpos' = -1
    /\ delivered' = delivered \cup {"video"}
    /\ outcome' = "upload_video"
    /\ pc' = "finally"
    /\ UNCHANGED <<url, now, last_edit, last_text, last_call, tmpdir,
                   duration, listing, filename, file_size>>
    /\ UNCHANGED <<appvars, concvars>>

\* What the endpoint may have done with a request whose call raised: nothing,
\* or, the whole body read (a response lost or timed out), the message sent.
AfterRaise(kind, left, size) ==
    IF left = size THEN { delivered, delivered \cup {kind} } ELSE { delivered }

\* reply_video raises and the exception goes straight to the outer handler.
SendVideoFailsNoFallback ==
    /\ pc = "video"
    /\ \E p \in StreamPositions(file_size) :
        /\ calls' = Append(calls, Upload("reply_video", FALSE, fpos, file_size, p))
        /\ fpos' = -1
        /\ delivered' \in AfterRaise("video", p, file_size)
    /\ pc' = "except"
    /\ UNCHANGED <<url, now, last_edit, last_text, last_call, tmpdir,
                   duration, listing, filename, file_size, outcome>>
    /\ UNCHANGED <<appvars, concvars>>

\* lines 329-338: reply_video raises
SendVideoFails ==
    /\ pc = "video"
    /\ \E p \in StreamPositions(file_size) :
        /\ calls' = Append(calls, Upload("reply_video", FALSE, fpos, file_size, p))
        /\ fpos' = p
        /\ delivered' \in AfterRaise("video", p, file_size)
    /\ pc' = "document"
    /\ UNCHANGED <<url, now, last_edit, last_text, last_call, tmpdir,
                   duration, listing, filename, file_size, outcome>>
    /\ UNCHANGED <<appvars, concvars>>

\* The stream left where the failed attempt stopped reading.
RewindSkipped(pos) == pos

\* f.seek(0), line 339: the position of the stream after it
Rewind(pos) == 0

\* lines 339-345 and the end of the with block: reply_document returns
SendDocument ==
    /\ pc = "document"
    /\ calls' = Append(calls, Upload("reply_document", TRUE, Rewind(fpos), file_size, file_size))
    /\ fpos' = -1
    /\ delivered' = delivered \cup {"document"}
    /\ outcome' = "upload_document"
    /\ pc' = "finally"
    /\ UNCHANGED <<url, now, last_edit, last_text, last_call, tmpdir,
                   duration, listing, filename, file_size>>
    /\ UNCHANGED <<appvars, concvars>>

\* lines 339-345: reply_document raises, out of the handler of the first failure
SendDocumentFails ==
    /\ pc = "document"
    /\ calls' = Append(calls, Upload("reply_document", FALSE, Rewind(fpos), file_size, file_size))
    /\ fpos' = -1
    /\ delivered' \in AfterRaise("document", file_size, file_size)
    /\ pc' = "except"
    /\ UNCHANGED <<url, now, last_edit, last_text, last_call, tmpdir,
                   duration, listing, filename, file_size, outcome>>
    /\ UNCHANGED <<appvars, concvars>>

\* lines 347-350: except Exception, the error reported through the notifier
ReportError ==
    /\ pc = "except"
    /\ \E ok \in BOOLEAN : NotifierUpdate("error", ok)
    /\ outcome' = "error"
    /\ pc' = "finally"
    /\ UNCHANGED <<url, now, tmpdir, duration, listing, filename, file_size, fpos>>
    /\ UNCHANGED <<delivered, appvars, concvars>>

\* The run ends with the workspace left in place.
FinallyWithoutCleanup ==
    /\ pc = "finally"
    /\ pc' = "done"
    /\ UNCHANGED <<url, now, last_edit, last_text, last_call, calls, tmpdir,
                   duration, listing, filename, file_size, fpos, outcome>>
    /\ UNCHANGED <<delivered, appvars, concvars>>

\* lines 352-357: finally, tmpdir.cleanup()
Finally ==
    /\ pc = "finally"
    /\ calls' = Append(calls, Call("cleanup", "tmpdir", TRUE))
    /\ tmpdir' = "removed"
    /\ pc' = "done"
    /\ UNCHANGED <<url, now, last_edit, last_text, last_call,
                   duration, listing, filename, file_size, fpos, outcome>>
    /\ UNCHANGED <<delivered, appvars, concvars>>

Next ==
    \/ Elapse
    \/ NoArgs
    \/ RejectUrl
    \/ StatusMessageFails
    \/ AcceptUrl
    \/ UpdateFetching
    \/ Resolve
    \/ ResolveFails
    \/ GateRaises
    \/ RejectDuration
    \/ PassDuration
    \/ Download
    \/ DownloadFails
    \/ ScanRaises
    \/ ScanFindsNone
    \/ ScanFinds
    \/ RejectSize
    \/ PassSize
    \/ SendVideo
    \/ SendVideoFails
    \/ SendDocument
    \/ SendDocumentFails
    \/ ReportError
    \/ Finally

Spec == Init /\ [][Next]_vars


(***************************************************************************)
(* The application around the handler: webhook(), lines 89-116, which      *)
(* hands each admitted update to the event loop of bot_application, and    *)
(* the dispatch of the handlers registered at lines 428-435.  The event    *)
(* loop is taken to run what it is handed, as the comments of lines 106    *)
(* and 437 say it does.  Runs of ytdl_cmd are followed one after another   *)
(* here; runs side by side are the subject of a later section.             *)
(***************************************************************************)
\* How many updates may wait on the event loop.
MaxPending == 2

\* How many runs of ytdl_cmd are followed.
MaxRuns == 2

\* The values of WEBHOOK_SECRET: unset (line 28 defaults to "") or set.
Secrets == { "", "s3cr3t" }

\* request.headers.get("X-Telegram-Bot-Api-Secret-Token"): "None" when absent.
Headers == { "None", "", "s3cr3t", "wrong" }

\* The bodies posted: a /ytdl command, any other update, one that cannot be read.
Kinds == { "ytdl", "other", "malformed" }

Answer(header, kind, status, scheduled) ==
    [header |-> header, kind |-> kind, status |-> status, scheduled |-> scheduled]

\* lines 419-442: main() builds the application, then starts the Flask thread;
\* no request is served before it, so the branch of lines 92-94 is never taken
Main ==
    /\ ~bot_application
    /\ bot_application' = TRUE
    /\ UNCHANGED <<secret, pending, last_post, started, failed>>
    /\ UNCHANGED <<pc, url, now, last_edit, last_text, last_call, calls, tmpdir,
                   duration, listing, filename, file_size, fpos, outcome, delivered,
                   concvars>>

\* The header compared only when the request carries one.
SecretRejectsPresent(header) ==
    /\ secret # ""
    /\ header # "None"
    /\ header # secret

\* lines 97-99: if WEBHOOK_SECRET: ... if secret_header != WEBHOOK_SECRET
SecretRejects(header) ==
    /\ secret # ""
    /\ header # secret

\* lines 97-101: the secret is configured and the header is not it
PostForbidden ==
    /\ bot_application
    /\ \E header \in Headers, kind \in Kinds :
        /\ SecretRejects(header)
        /\ last_post' = Answer(header, kind, 403, FALSE)
    /\ UNCHANGED <<bot_application, secret, pending, started, failed>>
    /\ UNCHANGED <<pc, url, now, last_edit, last_text, last_call, calls, tmpdir,
                   duration, listing, filename, file_size, fpos, outcome, delivered,
                   concvars>>

\* lines 103-112: the update is parsed and process_update handed to the loop
PostScheduled ==
    /\ bot_application
    /\ Len(pending) < MaxPending
    /\ \E header \in Headers, kind \in Kinds \ {"malformed"} :
        /\ ~SecretRejects(header)
        /\ pending' = Append(pending, kind)
        /\ last_post' = Answer(header, kind, 200, TRUE)
    /\ UNCHANGED <<bot_application, secret, started, failed>>
    /\ UNCHANGED <<pc, url, now, last_edit, last_text, last_call, calls, tmpdir,
                   duration, listing, filename, file_size, fpos, outcome, delivered,
                   concvars>>

\* lines 103-116: get_json, de_json or the scheduling raises
PostRaises ==
    /\ bot_application
    /\ \E header \in Headers, kind \in Kinds :
        /\ ~SecretRejects(header)
        /\ last_post' = Answer(header, kind, 500, FALSE)
    /\ UNCHANGED <<bot_application, secret, pending, started, failed>>
    /\ UNCHANGED <<pc, url, now, last_edit, last_text, last_call, calls, tmpdir,
                   duration, listing, filename, file_size, fpos, outcome, delivered,
                   concvars>>

\* The run of ytdl_cmd followed has ended, or none has begun.
RunOver == pc \in {"idle", "done", "handled"}

\* process_update on an update no /ytdl handler takes, lines 428-432
DispatchOther ==
    /\ pending # <<>>
    /\ Head(pending) # "ytdl"
    /\ pending' = Tail(pending)
    /\ UNCHANGED <<bot_application, secret, last_post, started, failed>>
    /\ UNCHANGED <<pc, url, now, last_edit, last_text, last_call, calls, tmpdir,
                   duration, listing, filename, file_size, fpos, outcome, delivered,
                   concvars>>

\* process_update on a /ytdl command, line 431: ytdl_cmd is entered with its
\* own locals
DispatchYtdl ==
    /\ pending # <<>>
    /\ Head(pending) = "ytdl"
    /\ RunOver
    /\ started < MaxRuns
    /\ pending' = Tail(pending)
    /\ started' = started + 1
    /\ failed' = IF outcome \in {"error", "raised"} THEN failed + 1 ELSE failed
    /\ pc' = "start"
    /\ url' = <<>>
    /\ last_edit' = 0
    /\ last_text' = "None"
    /\ last_call' = 0
    /\ calls' = <<>>
    /\ tmpdir' = "none"
    /\ duration' = DurationUnset
    /\ listing' = <<>>
    /\ filename' = <<>>
    /\ file_size' = -1
    /\ fpos' = -1
    /\ outcome' = "running"
    /\ delivered' = {}
    /\ UNCHANGED <<now, bot_application, secret, last_post, concvars>>

\* The process as it is started: nothing built, nothing received.
WebhookInit ==
    /\ pc = "idle"
    /\ url = <<>>
    /\ now = StartTime
    /\ last_edit = 0
    /\ last_text = "None"
    /\ last_call = 0
    /\ calls = <<>>
    /\ tmpdir = "none"
    /\ duration = DurationUnset
    /\ listing = <<>>
    /\ filename = <<>>
    /\ file_size = -1
    /\ fpos = -1
    /\ outcome = "running"
    /\ delivered = {}
    /\ bot_application = FALSE
    /\ secret \in Secrets
    /\ pending = <<>>
    /\ last_post = NoPost
    /\ started = 0
    /\ failed = 0
    /\ ConcOff

WebhookNext ==
    \/ Main
    \/ PostForbidden
    \/ PostScheduled
    \/ PostRaises
    \/ DispatchOther
    \/ DispatchYtdl

WebhookSpec == WebhookInit /\ [][WebhookNext]_vars

\* C11: with WEBHOOK_SECRET set, a POST whose secret header is absent or is
\* another value is answered 403 and is not admitted: nothing is handed to the
\* event loop and no run starts in the step that answers it, and whatever is
\* handed to the event loop comes with a POST that passed.  With no secret
\* set, no header value is refused.
C11_WrongSecretNeverAdmitted ==
    /\ []((secret # "" /\ last_post.kind # "none" /\ last_post.header # secret)
            => (last_post.status = 403 /\ ~last_post.scheduled))
    /\ []((secret = "" /\ last_post.kind # "none") => last_post.status # 403)
    /\ [][/\ (last_post' # last_post /\ secret # "" /\ last_post'.header # secret)
               => (pending' = pending /\ started' = started /\ pc' = pc)
          /\ Len(pending') > Len(pending)
               => (last_post'.scheduled /\ (secret = "" \/ last_post'.header = secret))]_vars

\* a POST without the header was refused while a secret is set, after an update
\* with the right header had been admitted and its run started
C11_Witness ==
    /\ secret # ""
    /\ last_post.header = "None"
    /\ last_post.status = 403
    /\ started = 1


(***************************************************************************)
(* The application serving one request after another: each update is       *)
(* posted with the configured secret while no run is in progress, and      *)
(* dispatched; the run of ytdl_cmd it starts is followed to its end, and   *)
(* an exception that leaves ytdl_cmd goes to error_handler.                *)
(***************************************************************************)
\* lines 373-384: error_handler, called with the exception that left the
\* handler; a failure of its own send_message is swallowed
ErrorHandler ==
    /\ pc = "done"
    /\ outcome = "raised"
    /\ \E ok \in BOOLEAN : calls' = Append(calls, Call("send_message", "sorry", ok))
    /\ pc' = "handled"
    /\ UNCHANGED <<url, now, last_edit, last_text, last_call, tmpdir,
                   duration, listing, filename, file_size, fpos, outcome>>
    /\ UNCHANGED <<delivered, appvars, concvars>>

\* A started process with the secret configured.
AppInit ==
    /\ pc = "idle"
    /\ url = <<>>
    /\ now = StartTime
    /\ last_edit = 0
    /\ last_text = "None"
    /\ last_call = 0
    /\ calls = <<>>
    /\ tmpdir = "none"
    /\ duration = DurationUnset
    /\ listing = <<>>
    /\ filename = <<>>
    /\ file_size = -1
    /\ fpos = -1
    /\ outcome = "running"
    /\ delivered = {}
    /\ bot_application = FALSE
    /\ secret = "s3cr3t"
    /\ pending = <<>>
    /\ last_post = NoPost
    /\ started = 0
    /\ failed = 0
    /\ ConcOff

AppNext ==
    \/ Main
    \/ (RunOver /\ PostScheduled)
    \/ DispatchOther
    \/ DispatchYtdl
    \/ ErrorHandler
    \/ NoArgs
    \/ RejectUrl
    \/ StatusMessageFails
    \/ AcceptUrl
    \/ UpdateFetching
    \/ Resolve
    \/ ResolveFails
    \/ GateRaises
    \/ RejectDuration
    \/ PassDuration
    \/ Download
    \/ DownloadFails
    \/ ScanRaises
    \/ ScanFindsNone
    \/ ScanFinds
    \/ RejectSize
    \/ PassSize
    \/ SendVideo
    \/ SendVideoFails
    \/ SendDocument
    \/ SendDocumentFails
    \/ ReportError
    \/ Finally

AppSpec == AppInit /\ [][AppNext]_vars

\* The calls of the stages named by C12 that raised in this run.
StageFailures ==
    { i \in DOMAIN calls :
        /\ ~calls[i].ok
        /\ calls[i].op \in {"extract_info", "download", "listdir", "reply_video", "reply_document"} }

\* C12: an exception of metadata resolution, download, file discovery or upload
\* does not leave ytdl_cmd: the run goes on to its except or finally clause and
\* ends with the workspace removed; and once a run has ended on an exception the
\* application is still there, and an update waiting on its event loop is
\* dispatched to a new run.
C12_FailureNotFatal ==
    /\ StageFailures # {} =>
          /\ outcome # "raised"
          /\ pc \in {"document", "except", "finally", "done"}
          /\ pc = "except" => ENABLED ReportError
          /\ pc = "finally" => ENABLED Finally
          /\ pc = "done" => (tmpdir = "removed" /\ outcome \in {"error", "upload_document"})
    /\ started > 0 => bot_application
    /\ (RunOver /\ outcome \in {"error", "raised"}) =>
          /\ Len(pending) < MaxPending => ENABLED PostScheduled
          /\ (started < MaxRuns /\ pending # <<>> /\ Head(pending) = "ytdl")
                => ENABLED DispatchYtdl

\* a run has delivered the video after an earlier run of the same application
\* ended on an exception
C12_Witness ==
    /\ failed > 0
    /\ pc = "done"
    /\ outcome = "upload_video"

(***************************************************************************)
(* Several runs of ytdl_cmd side by side (concurrent_updates(True), line   *)
(* 424): each run is a task of the one event loop, suspended at its awaits *)
(* while other runs take steps.  run[r] holds the locals of run r (its     *)
(* position, tmpdir.name, its notifier's two fields, filename), disk the   *)
(* directories under the temp root.  A file remembers the run whose        *)
(* download wrote it.  Both runs may be for the same URL, so that their    *)
(* downloads write files of the same name.  The clock is not moved here.   *)
(***************************************************************************)
\* How many runs are followed side by side.
MaxConcurrent == 2

Runs == 1..MaxConcurrent

\* The names tempfile can give a directory.
DirNames == 1..MaxConcurrent

\* A directory that does not exist, and one just made.
Absent == [exists |-> FALSE, files |-> {}]

\* A run not yet started: no workspace (0), no notifier.
IdleRun ==
    [pc |-> "idle", tmpdir |-> 0, last_edit |-> 0, last_text |-> "None",
     wrote |-> {}, filename |-> <<>>, sent |-> <<>>]

\* What a download leaves in ydl's home directory: nothing, or the video.
Downloads == { {}, { [stem |-> "b", ext |-> ".mp4"] } }

\* The file as written by run r.
WrittenBy(r, file) == [stem |-> file.stem, ext |-> file.ext, by |-> r]

\* One directory used by every run.
MkDtempFixed == { 1 }

\* tempfile.TemporaryDirectory(), line 270: mkdtemp makes a directory under a
\* name no existing entry has
MkDtemp == { d \in DirNames : ~disk[d].exists }

\* update(text) on the notifier of run r, lines 189-205
RunNotifierUpdate(r, text, ok) ==
    IF \/ (run[r].last_text = text /\ (now - run[r].last_edit) < MinInterval)
       \/ (now - run[r].last_edit) < MinInterval
    THEN run[r]
    ELSE IF ok THEN [run[r] EXCEPT !.last_edit = now, !.last_text = text]
         ELSE run[r]

\* The variables of the single run followed elsewhere.
onevars == <<pc, url, last_edit, last_text, last_call, calls, tmpdir,
             duration, listing, filename, file_size, fpos, outcome, delivered>>

\* lines 261-270: the link is accepted, the status message sent, the notifier
\* and the workspace of run r created
RunAccept(r) ==
    /\ run[r].pc = "idle"
    /\ \E d \in MkDtemp :
        /\ disk' = [disk EXCEPT ![d] = [exists |-> TRUE, files |-> disk[d].files]]
        /\ run' = [run EXCEPT ![r] = [IdleRun EXCEPT !.pc = "try", !.tmpdir = d]]
    /\ UNCHANGED <<now, onevars, appvars>>

\* line 273
RunUpdateFetching(r) ==
    /\ run[r].pc = "try"
    /\ \E ok \in BOOLEAN :
        run' = [run EXCEPT ![r] = [RunNotifierUpdate(r, "fetching", ok) EXCEPT !.pc = "resolve"]]
    /\ UNCHANGED <<now, disk, onevars, appvars>>

\* lines 283-292: the metadata resolved, the duration allowed, the update
RunResolve(r) ==
    /\ run[r].pc = "resolve"
    /\ \E ok \in BOOLEAN :
        run' = [run EXCEPT ![r] = [RunNotifierUpdate(r, "found", ok) EXCEPT !.pc = "download"]]
    /\ UNCHANGED <<now, disk, onevars, appvars>>

\* lines 283-290, 347-350: extract_info raises, or the video is too long
RunResolveStops(r) ==
    /\ run[r].pc = "resolve"
    /\ \E text \in {"error", "too_long"}, ok \in BOOLEAN :
        run' = [run EXCEPT ![r] = [RunNotifierUpdate(r, text, ok) EXCEPT !.pc = "finally"]]
    /\ UNCHANGED <<now, disk, onevars, appvars>>

\* line 295 with paths.home = tmpdir.name (line 276): the files are written
\* into the directory of run r, over any file of the same name
RunDownload(r) ==
    /\ run[r].pc = "download"
    /\ disk[run[r].tmpdir].exists
    /\ \E w \in Downloads :
        /\ disk' = [disk EXCEPT ![run[r].tmpdir].files =
                      { f \in @ : \A g \in w : <<f.stem, f.ext>> # <<g.stem, g.ext>> }
                         \cup { WrittenBy(r, g) : g \in w }]
        /\ run' = [run EXCEPT ![r].pc = "scan", ![r].wrote = w]
    /\ UNCHANGED <<now, onevars, appvars>>

\* lines 295, 347-350: the download raises (so it does when its directory is gone)
RunDownloadFails(r) ==
    /\ run[r].pc = "download"
    /\ \E ok \in BOOLEAN :
        run' = [run EXCEPT ![r] = [RunNotifierUpdate(r, "error", ok) EXCEPT !.pc = "finally"]]
    /\ UNCHANGED <<now, disk, onevars, appvars>>

\* The video files os.listdir(tmpdir.name) of run r returns, lines 299-300.
RunVideos(r) == { f \in disk[run[r].tmpdir].files : IsVideo(f) }

\* lines 298-308: a file of the listing is picked, the update before the upload
RunScanFinds(r) ==
    /\ run[r].pc = "scan"
    /\ disk[run[r].tmpdir].exists
    /\ \E f \in RunVideos(r), ok \in BOOLEAN :
        run' = [run EXCEPT ![r] = [RunNotifierUpdate(r, "uploading", ok)
                                      EXCEPT !.pc = "upload", !.filename = <<f>>]]
    /\ UNCHANGED <<now, disk, onevars, appvars>>

\* lines 298-306, 347-350: no video file in the listing, or os.listdir raises
\* on a directory that is gone
RunScanFindsNone(r) ==
    /\ run[r].pc = "scan"
    /\ (~disk[run[r].tmpdir].exists \/ RunVideos(r) = {})
    /\ \E ok \in BOOLEAN :
        run' = [run EXCEPT ![r] = [RunNotifierUpdate(r, "no_file", ok) EXCEPT !.pc = "finally"]]
    /\ UNCHANGED <<now, disk, onevars, appvars>>

\* The file now found under the path run r picked, lines 320-327.
RunOpens(r) ==
    { f \in disk[run[r].tmpdir].files :
        /\ disk[run[r].tmpdir].exists
        /\ f.stem = run[r].filename[1].stem
        /\ f.ext = run[r].filename[1].ext }

\* lines 320-345: the file under the path is opened and sent, as a video or as
\* a document, or both attempts raise and the error is reported (347-350)
RunUpload(r) ==
    /\ run[r].pc = "upload"
    /\ \E f \in RunOpens(r) :
        \/ run' = [run EXCEPT ![r].pc = "finally", ![r].sent = <<f>>]
        \/ \E ok \in BOOLEAN :
             run' = [run EXCEPT ![r] = [RunNotifierUpdate(r, "error", ok)
                                           EXCEPT !.pc = "finally", !.sent = <<f>>]]
    /\ UNCHANGED <<now, disk, onevars, appvars>>

\* lines 320-325, 347-350: the file is over the ceiling, or is not there any
\* more and os.path.getsize raises
RunUploadStops(r) ==
    /\ run[r].pc = "upload"
    /\ \E text \in {"too_large", "error"}, ok \in BOOLEAN :
        /\ text = "error" => RunOpens(r) = {}
        /\ run' = [run EXCEPT ![r] = [RunNotifierUpdate(r, text, ok) EXCEPT !.pc = "finally"]]
    /\ UNCHANGED <<now, disk, onevars, appvars>>

\* lines 352-357: tmpdir.cleanup() removes the directory of run r and all in it
RunFinally(r) ==
    /\ run[r].pc = "finally"
    /\ disk' = [disk EXCEPT ![run[r].tmpdir] = Absent]
    /\ run' = [run EXCEPT ![r].pc = "done"]
    /\ UNCHANGED <<now, onevars, appvars>>

\* The event loop with no run started yet.
ConcInit ==
    /\ pc = "concurrent"
    /\ url = <<>>
    /\ now = StartTime
    /\ last_edit = 0
    /\ last_text = "None"
    /\ last_call = 0
    /\ calls = <<>>
    /\ tmpdir = "none"
    /\ duration = DurationUnset
    /\ listing = <<>>
    /\ filename = <<>>
    /\ file_size = -1
    /\ fpos = -1
    /\ outcome = "running"
    /\ delivered = {}
    /\ AppOff
    /\ run = [r \in Runs |-> IdleRun]
    /\ disk = [d \in DirNames |-> Absent]

ConcNext ==
    \E r \in Runs :
        \/ RunAccept(r)
        \/ RunUpdateFetching(r)
        \/ RunResolve(r)
        \/ RunResolveStops(r)
        \/ RunDownload(r)
        \/ RunDownloadFails(r)
        \/ RunScanFinds(r)
        \/ RunScanFindsNone(r)
        \/ RunUpload(r)
        \/ RunUploadStops(r)
        \/ RunFinally(r)

ConcSpec == ConcInit /\ [][ConcNext]_vars

\* The runs that hold a workspace: created and not yet torn down.
InProgress == { r \in Runs : run[r].pc \notin {"idle", "done"} }

\* C15: in every interleaving of the runs, two runs in progress never hold the
\* same workspace; the file a run picks, and the file it opens and uploads, was
\* written by its own download; the workspace of a run in progress exists and
\* still holds what its download wrote, whatever teardown another run has
\* done; and a step of one run changes the locals and the notifier fields of no
\* other run.
C15_RunsOwnTheirWorkspace ==
    /\ [](\A r, q \in InProgress : r # q => run[r].tmpdir # run[q].tmpdir)
    /\ [](\A r \in Runs :
            /\ run[r].filename # <<>> => run[r].filename[1].by = r
            /\ run[r].sent # <<>> => run[r].sent[1].by = r)
    /\ [](\A r \in InProgress :
            /\ disk[run[r].tmpdir].exists
            /\ \A f \in disk[run[r].tmpdir].files : f.by = r
            /\ run[r].pc \in {"scan", "upload", "finally"} =>
                 \A g \in run[r].wrote : WrittenBy(r, g) \in disk[run[r].tmpdir].files)
    /\ [][\A r, q \in Runs : (r # q /\ run'[r] # run[r]) => run'[q] = run[q]]_vars

\* one run has uploaded its file while the other, for the same link, holds a
\* file of the same name in its own workspace, after the first tore its own down
C15_Witness ==
    \E r, q \in Runs :
        /\ r # q
        /\ run[r].pc = "done" /\ run[r].sent # <<>>
        /\ run[q].pc = "upload"
        /\ run[q].filename # <<>>
        /\ run[q].filename[1].stem = run[r].sent[1].stem
        /\ run[q].filename[1].ext = run[r].sent[1].ext

(***************************************************************************)
(* One ProgressNotifier on its own, called with any texts at any times.    *)
(***************************************************************************)
\* How many edit_message_text calls a notifier is followed for.
MaxCalls == 4

\* The texts update is called with.
Texts == { "fetching", "found" }

\* A notifier just constructed, lines 182-187, outside any run.
NotifierAlone ==
    /\ pc = "notifier"
    /\ url = <<>>
    /\ now = StartTime
    /\ last_edit = 0
    /\ last_text = "None"
    /\ last_call = 0
    /\ calls = <<>>
    /\ tmpdir = "none"
    /\ duration = DurationUnset
    /\ listing = <<>>
    /\ filename = <<>>
    /\ file_size = -1
    /\ fpos = -1
    /\ outcome = "running"
    /\ delivered = {}
    /\ AppOff
    /\ ConcOff

\* One call of update, lines 189-205.
CallUpdate ==
    /\ pc = "notifier"
    /\ Len(calls) < MaxCalls
    /\ \E text \in Texts, ok \in BOOLEAN : NotifierUpdate(text, ok)
    /\ UNCHANGED <<pc, url, now, tmpdir, duration, listing, filename, file_size, fpos, outcome>>
    /\ UNCHANGED <<delivered, appvars, concvars>>

NotifierNext ==
    \/ Elapse
    \/ CallUpdate

NotifierSpec == NotifierAlone /\ [][NotifierNext]_vars


(***************************************************************************)
(* The claims.                                                             *)
(***************************************************************************)
EditsIn(cs) == { i \in DOMAIN cs : cs[i].op = "edit_message_text" }

\* The text of the latest edit that succeeded before call i ("None": none).
LastSentBefore(i) ==
    LET sent == { j \in 1..(i - 1) : calls[j].op = "edit_message_text" /\ calls[j].ok }
    IN  IF sent = {} THEN "None"
        ELSE calls[CHOOSE j \in sent : \A k \in sent : k <= j].arg

\* The ways a run fails after its status message was created.
Failures == { "too_long", "no_file", "too_large", "error" }

\* C1: a run whose first argument does not match YOUTUBE_URL_RE has ended
\* with the 'Invalid YouTube link.' reply as its only call: no extract_info,
\* no download, no upload, and no workspace was created.
C1_InvalidUrlStopsRun ==
    (pc # "start" /\ outcome # "usage" /\ ~YOUTUBE_URL_RE(url)) =>
        /\ pc = "done"
        /\ outcome = "invalid"
        /\ Len(calls) = 1
        /\ calls[1].op = "reply_text"
        /\ calls[1].arg = "invalid"
        /\ \A i \in DOMAIN calls :
              calls[i].op \notin {"extract_info", "download", "reply_video", "reply_document"}
        /\ tmpdir = "none"

\* C1 witness: a link with a valid prefix and a bad end was rejected.
C1_Witness ==
    /\ pc = "done"
    /\ outcome = "invalid"
    /\ UrlPrefixMatches(url)
    /\ ~YOUTUBE_URL_RE(url)

\* C2: once the resolved duration is above 1800 s the run only rejects: no
\* download and no upload is ever made and it ends as "too long"; a duration
\* of exactly 1800 s passes the gate and goes on to the download.
C2_TooLongNeverDownloads ==
    /\ (duration.kind = "int" /\ duration.secs > MaxDuration) =>
          /\ CallsOf("download") = {}
          /\ Uploads = {}
          /\ pc \in {"gate", "finally", "done"}
          /\ (pc # "gate" => outcome = "too_long")
    /\ (duration.kind = "int" /\ duration.secs = MaxDuration /\ pc # "gate") =>
          /\ outcome # "too_long"
          /\ (pc = "download" \/ CallsOf("download") # {})

\* C2 witness: a run with a duration of 1801 s has ended, rejected.
C2_Witness ==
    /\ pc = "done"
    /\ duration = Seconds(MaxDuration + 1)
    /\ outcome = "too_long"
    /\ filename = <<>>

\* C3: no edit_message_text call carries the text of the latest edit that
\* succeeded before it, however much time has passed.
C3_NoRepeatedText ==
    \A i \in EditsIn(calls) : calls[i].arg # LastSentBefore(i)

\* C4: an update made less than min_interval after the previous
\* edit_message_text call makes no call, so that two such calls are never
\* closer together than min_interval.
C4_NoCallInsideInterval ==
    [][(last_call # 0 /\ now - last_call < MinInterval)
          => EditsIn(calls') = EditsIn(calls)]_vars

\* C5: a run that ended in a failure after its status message was created
\* has made exactly one edit_message_text call with the text of that failure.
C5_FailureReportedOnce ==
    (pc = "done" /\ outcome \in Failures) =>
        Cardinality({ i \in EditsIn(calls) : calls[i].arg = outcome }) = 1

C7_ReferenceAttemptFirst ==
    \A i \in Uploads :
        calls[i].arg = "InputFile" =>
            \E j \in 1..(i - 1) :
                /\ calls[j].op \in {"reply_video", "reply_document"}
                /\ calls[j].arg = "url"
                /\ ~calls[j].ok

\* C8: once reply_video has returned, the run is a success by upload_video
\* with one download, one upload attempt and no reply_document, then and
\* for the rest of the run.
C8_VideoAcceptedSingleUpload ==
    (\E i \in CallsOf("reply_video") : calls[i].ok) =>
        /\ Cardinality(CallsOf("download")) = 1
        /\ Cardinality(Uploads) = 1
        /\ CallsOf("reply_document") = {}
        /\ outcome = "upload_video"
        /\ pc \in {"finally", "done"}

\* C8 witness: a run has ended with the video accepted.
C8_Witness ==
    /\ pc = "done"
    /\ outcome = "upload_video"
    /\ \E i \in CallsOf("reply_video") : calls[i].ok

\* C9: a reply_document call comes right after a reply_video call that
\* raised, there is at most one, it reads the stream from position 0 as the
\* video attempt did, over the same file; and a run whose reply_video raised
\* has made exactly one once it is past the fallback.
C9_DocumentRetryRewinds ==
    /\ \A i \in CallsOf("reply_document") :
          /\ i > 1
          /\ calls[i - 1].op = "reply_video"
          /\ ~calls[i - 1].ok
          /\ calls[i].from = 0
          /\ calls[i].from = calls[i - 1].from
          /\ calls[i].size = calls[i - 1].size
    /\ Cardinality(CallsOf("reply_document")) <= 1
    /\ ((\E i \in CallsOf("reply_video") : ~calls[i].ok) /\ pc # "document") =>
          Cardinality(CallsOf("reply_document")) = 1

\* C9 witness: the document was sent from the start after a failed video
\* attempt that had left the stream at its end.
C9_Witness ==
    \E i \in CallsOf("reply_document") :
        /\ calls[i].ok
        /\ calls[i - 1].left = calls[i - 1].size
        /\ calls[i - 1].left > 0
        /\ calls[i].from = 0

\* C10: no upload carries a file above the size ceiling, the size is read
\* before any upload, and a run whose file is above the ceiling is a "too
\* large" rejection with no upload and no error report.
C10_OversizeNeverUploaded ==
    /\ \A i \in Uploads : calls[i].size = file_size /\ calls[i].size <= max_size
    /\ (file_size > max_size) =>
          /\ Uploads = {}
          /\ outcome = "too_large"
          /\ pc \in {"finally", "done"}
          /\ \A i \in EditsIn(calls) : calls[i].arg # "error"

\* C10 witness: a run whose file is one byte above the ceiling has ended
\* as a rejection.
C10_Witness ==
    /\ pc = "done"
    /\ file_size = max_size + 1
    /\ outcome = "too_large"


\* The stage of the run a call belongs to; 0 for the replies and status edits,
\* which are not stages.
StageOf(op) ==
    CASE op = "extract_info" -> 2
      [] op = "download" -> 4
      [] op = "listdir" -> 5
      [] op \in {"reply_video", "reply_document"} -> 6
      [] op = "cleanup" -> 7
      [] OTHER -> 0

\* The stage the run is in: validation 1, resolution 2, duration check 3,
\* fetch 4, scan and size check 5, upload 6, teardown 7; 8 once it has ended.
StageAt(p) ==
    CASE p = "start" -> 1
      [] p \in {"try", "resolve"} -> 2
      [] p = "gate" -> 3
      [] p = "download" -> 4
      [] p \in {"scan", "size"} -> 5
      [] p \in {"video", "document"} -> 6
      [] p \in {"except", "finally"} -> 7
      [] OTHER -> 8

\* C13: the stages of a run come in the order validation, resolution, duration
\* check, fetch, size check, upload attempts, teardown: the run never moves to
\* an earlier stage, a stage is entered only with the stages before it passed,
\* and after a stage that failed or rejected only the teardown follows (the
\* document attempt after a failed video attempt is the same stage).
C13_StagesInOrder ==
    /\ [][StageAt(pc') >= StageAt(pc)]_vars
    /\ [](\A i, j \in DOMAIN calls :
            (i < j /\ StageOf(calls[i].op) # 0 /\ StageOf(calls[j].op) # 0)
               => /\ StageOf(calls[i].op) <= StageOf(calls[j].op)
                  /\ (~calls[i].ok /\ calls[i].op # "reply_video") => calls[j].op = "cleanup")
    /\ [](StageAt(pc) \in 2..6 => (url # <<>> /\ YOUTUBE_URL_RE(url)))
    /\ [](StageAt(pc) \in 3..6 =>
            \E i \in CallsOf("extract_info") : calls[i].ok)
    /\ [](StageAt(pc) \in 4..6 => (duration.kind = "int" /\ ~TooLong(duration)))
    /\ [](StageAt(pc) \in 5..6 => \E i \in CallsOf("download") : calls[i].ok)
    /\ [](StageAt(pc) = 6 => (filename # <<>> /\ file_size # -1 /\ ~TooLarge(file_size)))
    /\ [](CallsOf("download") # {} => (duration.kind = "int" /\ ~TooLong(duration)))
    /\ [](Uploads # {} => (file_size # -1 /\ ~TooLarge(file_size)))
    /\ [](outcome \in {"invalid", "too_long", "no_file", "too_large"} =>
            /\ Uploads = {}
            /\ StageAt(pc) >= 7)

\* a run that went through every stage: resolution, fetch, both upload
\* attempts, teardown
C13_Witness ==
    /\ pc = "done"
    /\ outcome = "upload_document"
    /\ CallsOf("extract_info") # {} /\ CallsOf("download") # {}
    /\ CallsOf("reply_video") # {} /\ CallsOf("cleanup") # {}

\* The status edits that report an error after an upload was attempted.
DeliveryFailureEdits ==
    { k \in DOMAIN calls :
        /\ calls[k].op = "edit_message_text"
        /\ calls[k].arg = "error"
        /\ \E i \in Uploads : i < k }

\* C14: a failure of the delivery is reported only once the video attempt and
\* then the document attempt have both raised: never after the video attempt
\* alone, and never in a run in which one of the two calls returned.
C14_FailureAfterWholeChain ==
    /\ \A k \in DeliveryFailureEdits :
          \E i \in CallsOf("reply_video"), j \in CallsOf("reply_document") :
              /\ i < j /\ j < k
              /\ ~calls[i].ok /\ ~calls[j].ok
    /\ (\E i \in Uploads : calls[i].ok) =>
          /\ outcome # "error"
          /\ pc # "except"
          /\ \A k \in DOMAIN calls : calls[k].arg # "error"
    /\ (CallsOf("reply_video") # {} /\ CallsOf("reply_document") = {}) =>
          (outcome # "error" /\ pc # "except")

\* both attempts raised and the error was then sent as a status edit
C14_Witness ==
    /\ pc = "done"
    /\ outcome = "error"
    /\ DeliveryFailureEdits # {}

\* Where the run stands after update(text) has returned, lines 273-350.
AfterUpdate(text) ==
    CASE text = "fetching" -> "resolve"
      [] text = "found" -> "download"
      [] text = "uploading" -> "size"
      [] OTHER -> "finally"

\* How a run that entered the try block ends, told from what the resolution,
\* the download, the scan and the uploads did, and from nothing else.
OutcomeWithoutEdits ==
    CASE CallsOf("extract_info") = {} -> "none"
      [] \E i \in CallsOf("extract_info") : ~calls[i].ok -> "error"
      [] duration.kind # "int" -> "error"
      [] TooLong(duration) -> "too_long"
      [] \E i \in CallsOf("download") \cup CallsOf("listdir") : ~calls[i].ok -> "error"
      [] filename = <<>> -> "no_file"
      [] TooLarge(file_size) -> "too_large"
      [] \E i \in CallsOf("reply_video") : calls[i].ok -> "upload_video"
      [] \E i \in CallsOf("reply_document") : calls[i].ok -> "upload_document"
      [] OTHER -> "error"

\* C16: an edit_message_text that raises inside update is swallowed: the step
\* that made the failed edit leaves the run where a successful edit would, with
\* the same outcome so far, and the way a run ends is determined by the
\* resolution, the download, the scan and the uploads alone.
C16_FailedEditChangesNothing ==
    /\ [][(Len(calls') = Len(calls) + 1 /\ calls'[Len(calls')].op = "edit_message_text")
            => /\ pc' = AfterUpdate(calls'[Len(calls')].arg)
               /\ outcome' = (CASE calls'[Len(calls')].arg = "fetching" -> outcome
                                [] calls'[Len(calls')].arg = "found" -> outcome
                                [] calls'[Len(calls')].arg = "uploading" -> outcome
                                [] OTHER -> calls'[Len(calls')].arg)
               /\ tmpdir' = tmpdir]_vars
    /\ []((pc = "done" /\ tmpdir = "removed") => outcome = OutcomeWithoutEdits)

\* a run delivered the video although one of its status edits had raised
C16_Witness ==
    /\ pc = "done"
    /\ outcome = "upload_video"
    /\ \E i \in EditsIn(calls) : ~calls[i].ok

\* The characters of file names in code point order, as Python compares str.
CodeOrder ==
    <<"-", ".", "0", "1", "2", "3", "4", "5", "6", "7", "8", "9">>
        \o UpperSeq \o <<"_">> \o LowerSeq

Ord(c) == CHOOSE i \in DOMAIN CodeOrder : CodeOrder[i] = c

\* The name of a file, character by character.
NameChars(file) ==
    <<file.stem>> \o (CASE file.ext = ".mkv" -> <<".", "m", "k", "v">>
                        [] file.ext = ".mp4" -> <<".", "m", "p", "4">>
                        [] file.ext = ".webm" -> <<".", "w", "e", "b", "m">>
                        [] file.ext = ".part" -> <<".", "p", "a", "r", "t">>)

\* s < t for two strings
LexLess(s, t) ==
    \E k \in 1..(Len(t)) :
        /\ \A i \in 1..(k - 1) : i <= Len(s) /\ s[i] = t[i]
        /\ (k > Len(s) \/ Ord(s[k]) < Ord(t[k]))

\* The video files of a listing.
VideosOf(l) == { l[i] : i \in { j \in DOMAIN l : IsVideo(l[j]) } }

\* C17: with several video files in the workspace the file picked is the one
\* whose name is lexicographically first, whatever order the listing has; with
\* none the run ends with 'No video file found' and no upload is made.
C17_LexicographicallyFirstPicked ==
    /\ filename # <<>> =>
          /\ filename[1] \in VideosOf(listing)
          /\ \A g \in VideosOf(listing) : ~LexLess(NameChars(g), NameChars(filename[1]))
    /\ (StageAt(pc) > 5 /\ CallsOf("download") # {} /\ CallsOf("listdir") = {}
          /\ (\A i \in CallsOf("download") : calls[i].ok) /\ VideosOf(listing) = {})
          => (outcome = "no_file" /\ Uploads = {})

\* C18: last_edit and last_text change only in a step whose edit succeeded,
\* and then both are assigned: last_edit the time of the call, last_text its
\* text; so last_text is the text of the last successful edit, or None.  A
\* failed edit leaves both as they were, and an update right after it is not
\* held back by the interval.
C18_StateFollowsSuccessfulEdits ==
    /\ [][(last_edit' # last_edit \/ last_text' # last_text)
            => /\ Len(calls') = Len(calls) + 1
               /\ calls'[Len(calls')].op = "edit_message_text"
               /\ calls'[Len(calls')].ok
               /\ last_edit' = now
               /\ last_text' = calls'[Len(calls')].arg]_vars
    /\ [][(Len(calls') = Len(calls) + 1 /\ calls'[Len(calls')].ok)
            => (last_edit' = now /\ last_text' = calls'[Len(calls')].arg)]_vars
    /\ [](last_text = LastSentBefore(Len(calls) + 1))
    /\ [][(Len(calls') = Len(calls) + 1 /\ ~calls'[Len(calls')].ok)
            => /\ last_edit' = last_edit
               /\ last_text' = last_text
               /\ \A text \in Texts : ~(Throttled(text))']_vars

\* an edit has failed after an earlier one succeeded, and the fields still
\* hold the time and the text of the earlier one
C18_Witness ==
    /\ pc = "notifier"
    /\ Len(calls) >= 2
    /\ ~calls[Len(calls)].ok
    /\ last_text # "None"
    /\ last_edit < last_call

\* C19: whatever the endpoint does, the requester gets the file at most once:
\* no run leaves both a video message and a document message delivered.
C19_DeliveredAtMostOnce == ~({"video", "document"} \subseteq delivered)

====
